---- MODULE Spec2Model ----
(***************************************************************************)
(* Request governance of nextjs-trpc-hono-base: the sliding-window rate    *)
(* limit engine (checkRateLimit), the Hono rate limit middleware           *)
(* (rateLimiter) and the read-through cache (cache / invalidateCache),     *)
(* all running against one shared Redis store.                             *)
(*                                                                         *)
(* Every await of the code is one step of a process, so calls of           *)
(* different requests interleave exactly where the code can be suspended.  *)
(* A store command may fail (connection lost, commandTimeout); a failed    *)
(* write may or may not have been applied by the server.                   *)
(***************************************************************************)
EXTENDS Integers, Sequences, FiniteSets, TLC

(***************************************************************************)
(* Bounds of the model and the configuration the limiter runs with.        *)
(***************************************************************************)
\* the largest maxRequests a run is configured with
MaxMaxRequests == 3
\* finalConfig.windowMs handed to checkRateLimit, in milliseconds
WindowMs == 1000
\* milliseconds the clock advances in one step
TickMs == 500
\* clock steps in one run
MaxTicks == 4
\* checkRateLimit calls started in one run
MaxCalls == 4
\* disturbances of one run: store commands that fail, and calls that begin
\* while another call is in flight
MaxDisturbances == 1
\* requests the middleware receives in one run
MaxReqs == 2
\* clock steps in one run of the middleware
MaxMwTicks == 2
\* cache calls started in one run
MaxCacheCalls == 3
\* mutations, each followed by an invalidateCache call, in one run
MaxInvalidations == 1
\* clock steps in one run of the cache
MaxCacheTicks == 2
\* the ttlSeconds the routers hand to cache
TtlSeconds == 1
\* clock step of the log queue, in ms
LogTickMs == 2500
\* clock steps in one run of the log queue
MaxLogTicks == 3
\* database writes of the log queue in progress at one time
MaxWriting == 2
\* const BATCH_SIZE = 50
BATCH_SIZE == 50
\* const FLUSH_INTERVAL = 5000
FLUSH_INTERVAL == 5000
\* seconds the Rollback Record is kept (setWithExpiry(..., 60))
RecordTtlSeconds == 60

\* the processes (requests in flight at the same time)
Procs == {"p1", "p2"}
ProcOrder == [p \in Procs |-> IF p = "p1" THEN 1 ELSE 2]
\* identifiers handed to checkRateLimit
Idents == {"A"}

\* "no value": undefined / null / an absent key
None == "none"
\* "no time": an absent timestamp
NoTime == 0 - 1

(***************************************************************************)
(* Math.random().toString(36): the base-36 digits of a double in [0,1).    *)
(* 0.5 is "0.i", 0.25 is "0.9"; a typical draw has 10 or 11 digits.        *)
(***************************************************************************)
RandomDraws ==
    { <<"0", ".", "i">>,
      <<"0", ".", "9">>,
      <<"0", ".", "4", "f", "z", "y", "o", "8", "2", "m">> }

\* String.prototype.substring(start): the characters from index start (0-based) on
Substring(s, start) == IF start >= Len(s) THEN <<>> ELSE SubSeq(s, start + 1, Len(s))

\* `${now}-${Math.random().toString(36).substring(7)}`
MemberId(t, draw) == <<t, Substring(draw, 7)>>

(***************************************************************************)
(* Numbers as the store returns them (decimal strings) and parseInt.       *)
(***************************************************************************)
DigitChars == <<"0", "1", "2", "3", "4", "5", "6", "7", "8", "9">>

RECURSIVE ScoreString(_)
\* the score of a ZSET entry as ZRANGE ... WITHSCORES returns it
ScoreString(n) ==
    IF n < 10 THEN <<DigitChars[n + 1]>>
    ELSE Append(ScoreString(n \div 10), DigitChars[(n % 10) + 1])

DigitValue(c) == CHOOSE d \in 0..9 : DigitChars[d + 1] = c

\* Number.prototype.toString() of an integer
IntString(n) == IF n < 0 THEN <<"-">> \o ScoreString(0 - n) ELSE ScoreString(n)

\* Math.ceil(a / b) for b > 0
CeilDiv(a, b) == 0 - ((0 - a) \div b)

RECURSIVE ParseInt(_)
\* parseInt of a string of decimal digits
ParseInt(s) ==
    IF Len(s) = 1 THEN DigitValue(s[1])
    ELSE 10 * ParseInt(SubSeq(s, 1, Len(s) - 1)) + DigitValue(s[Len(s)])

(***************************************************************************)
(* The sorted-set commands of the store, on one key's set of               *)
(* [member, score] entries (an absent key is the empty set).               *)
(***************************************************************************)
\* (mutant) the range's upper end taken as exclusive
ZRemRangeByScoreExclusive(s, max) == {e \in s : e.score >= max}

\* (mutant) a purge that empties the set
ZRemRangeByScoreAll(s, max) == {}

\* ZREMRANGEBYSCORE key -inf max: both ends inclusive
ZRemRangeByScore(s, max) == {e \in s : e.score > max}

\* (mutant) a count that is always zero
ZCardZero(s) == 0

\* ZCARD key
ZCard(s) == Cardinality(s)

\* ZADD key score member: a member already present only gets the new score
ZAdd(s, score, m) == {e \in s : e.member # m} \cup {[member |-> m, score |-> score]}

\* ZREM key member
ZRem(s, m) == {e \in s : e.member # m}

\* ZRANGE key 0 0 WITHSCORES: [member, score] of the lowest score, or []
ZRangeFirstWithScores(s) ==
    IF s = {} THEN <<>>
    ELSE LET e == CHOOSE x \in s : \A y \in s : x.score <= y.score
         IN  <<e.member, ScoreString(e.score)>>

\* Math.ceil(windowMs / 1000) + 1, the seconds handed to EXPIRE
ExpirySeconds(windowMs) == ((windowMs + 999) \div 1000) + 1

(***************************************************************************)
(* Strings of a request.  A string is a sequence of characters; undefined  *)
(* and "" are both the empty sequence (both are falsy).                    *)
(***************************************************************************)
\* value.split(sep)[0]
SplitFirst(s, sep) ==
    IF \E k \in 1..Len(s) : s[k] = sep
    THEN LET k == CHOOSE j \in 1..Len(s) : s[j] = sep /\ \A i \in 1..(j - 1) : s[i] # sep
         IN  SubSeq(s, 1, k - 1)
    ELSE s

RECURSIVE TrimStart(_)
TrimStart(s) == IF Len(s) > 0 /\ s[1] = " " THEN TrimStart(Tail(s)) ELSE s

RECURSIVE TrimEnd(_)
TrimEnd(s) == IF Len(s) > 0 /\ s[Len(s)] = " " THEN TrimEnd(SubSeq(s, 1, Len(s) - 1)) ELSE s

\* String.prototype.trim()
Trim(s) == TrimEnd(TrimStart(s))

\* Array.prototype.includes
Includes(arr, x) == \E k \in 1..Len(arr) : arr[k] = x

\* the headers getClientIp looks at, in priority order
IpHeaders ==
    <<"cf-connecting-ip", "x-real-ip", "x-forwarded-for",
      "x-client-ip", "true-client-ip", "x-cluster-client-ip">>

\* headers[name]
Header(h, name) == IF name \in DOMAIN h THEN h[name] ELSE <<>>

Unknown == <<"unknown">>

\* getClientIp(c): the first header of the list that has a value, the first
\* entry of x-forwarded-for trimmed, else remote-addr, else "unknown"
GetClientIp(h) ==
    LET present == {k \in 1..Len(IpHeaders) : Len(Header(h, IpHeaders[k])) > 0}
    IN  IF present = {}
        THEN IF Len(Header(h, "remote-addr")) > 0 THEN Header(h, "remote-addr") ELSE Unknown
        ELSE LET k == CHOOSE j \in present : \A i \in present : j <= i
                 value == Header(h, IpHeaders[k])
             IN  IF IpHeaders[k] = "x-forwarded-for"
                 THEN Trim(SplitFirst(value, ","))
                 ELSE value

\* the requests of a run, by their headers; all of them go to the path "A".
\* "w" and "x" are two client addresses; the third request carries none.
Requests ==
    << ("x-forwarded-for" :> <<" ", "w", ",", "x">>) @@ ("x-client-ip" :> <<"x">>),
       ("cf-connecting-ip" :> <<>>) @@ ("remote-addr" :> <<"x">>),
       ("remote-addr" :> <<>>) >>

\* finalConfig.keyGenerator!(c), for a limiter keyed by the route: (c) => c.req.path
KeyGenerator(h) == "A"

\* finalConfig.keyGenerator!(c) throws: a generator that refuses a request
\* without a client address
KeyGeneratorThrows(h) == GetClientIp(h) = Unknown

\* the defaults of rateLimiter(config), before ...config
DefaultConfig ==
    [maxRequests |-> 100,
     skipSuccessfulRequests |-> FALSE,
     skipFailedRequests |-> FALSE,
     standardHeaders |-> TRUE,
     handler |-> FALSE,
     hasWhitelist |-> FALSE,
     whitelist |-> <<>>]

\* the configurations rateLimiter is created with
Configs ==
    { [DefaultConfig EXCEPT !.maxRequests = 1],
      [DefaultConfig EXCEPT !.maxRequests = 1, !.handler = TRUE, !.standardHeaders = FALSE,
                            !.skipFailedRequests = TRUE],
      [DefaultConfig EXCEPT !.maxRequests = 1, !.skipSuccessfulRequests = TRUE,
                            !.hasWhitelist = TRUE, !.whitelist = << <<"w">> >>] }

\* `rate_limit:${identifier}`
RateLimitKey(i) == <<"rate_limit:", i>>

\* the identifier whose window set lives under key k
KeyIdent(k) == k[2]

\* JSON.stringify({ identifier, timestamp, memberId, key }): the members in order
RecordJson(i, t, m) ==
    << <<"identifier", i>>, <<"timestamp", IntString(t)>>,
       <<"memberId", m>>, <<"key", RateLimitKey(i)>> >>

\* JSON.parse(text)[name]; undefined when the object has no such member
JsonField(text, name) ==
    IF \E k \in 1..Len(text) : text[k][1] = name
    THEN text[CHOOSE k \in 1..Len(text) : text[k][1] = name][2]
    ELSE <<>>

(***************************************************************************)
(* Values of the cache.  A value is [type, v]; v is the value's spelling.  *)
(* JSON.stringify and JSON.parse are modelled on the text they produce.    *)
(***************************************************************************)
JsNull == [type |-> "null", v |-> <<>>]
JsUndefined == [type |-> "undefined", v |-> <<>>]
JsNumber(digits) == [type |-> "number", v |-> digits]
JsString(chars) == [type |-> "string", v |-> chars]
JsDate(iso) == [type |-> "Date", v |-> iso]

\* what a fetcher of the routers returns: nothing found, a count, a row's createdAt
FetchValues == {JsNull, JsNumber(<<"1">>), JsDate(<<"2", "0", "2", "5">>)}

\* JSON.stringify(value): Date.prototype.toJSON gives the ISO string
JsonStringify(x) ==
    IF x.type = "null" THEN <<"null">>
    ELSE IF x.type = "number" THEN x.v
    ELSE <<"\"">> \o x.v \o <<"\"">>

\* JSON.parse(text) does not throw
Parsable(text) ==
    \/ text = <<"null">>
    \/ Len(text) >= 2 /\ text[1] = "\"" /\ text[Len(text)] = "\""
    \/ Len(text) >= 1 /\ \A k \in 1..Len(text) : \E d \in 1..10 : DigitChars[d] = text[k]

\* JSON.parse(text)
JsonParse(text) ==
    IF text = <<"null">> THEN JsNull
    ELSE IF text[1] = "\"" THEN JsString(SubSeq(text, 2, Len(text) - 1))
    ELSE JsNumber(text)

\* the keys the routers cache under (two listings of user u1 and u1's
\* statistics), and the patterns the mutations invalidate
CacheKeys == { <<"files:user:u1:", "a">>, <<"files:user:u1:", "b">>, <<"stats:user:u1">> }
Patterns == { <<"files:user:u1:", "*">>, <<"files:user:u2:", "*">> }

\* the cached entries scoped to the user whose mutation invalidates pattern
ScopedToUser(pattern) == IF pattern = <<"files:user:u1:", "*">> THEN CacheKeys ELSE {}

RECURSIVE GlobMatches(_, _)
\* KEYS pattern: "*" stands for any run of characters
GlobMatches(pattern, key) ==
    IF Len(pattern) = 0 THEN Len(key) = 0
    ELSE IF Head(pattern) = "*"
         THEN \E n \in 0..Len(key) : GlobMatches(Tail(pattern), SubSeq(key, n + 1, Len(key)))
         ELSE /\ Len(key) > 0
              /\ Head(key) = Head(pattern)
              /\ GlobMatches(Tail(pattern), Tail(key))

\* (mutant) a DEL that removes nothing
DelNothing(store, keys) == store

\* DEL key [key ...]
Del(store, keys) == [k \in DOMAIN store |-> IF k \in keys THEN <<>> ELSE store[k]]

VARIABLES
    now,            \* the clock: Date.now() and the store's own time, in ms
    ticks,          \* clock steps taken
    zset,           \* zset[i]: the sorted set under rate_limit:{i}
    zexp,           \* zexp[i]: when the key rate_limit:{i} expires, or NoTime
    faults,         \* store commands that have failed so far
    calls,          \* checkRateLimit calls started so far
    cfg,            \* finalConfig of the limiter
    logQueue,       \* the logs waiting for the next flush, each by its createdAt
    flushTimer,     \* the handle in flushTimer (the time its timer is due), or NoTime for null
    timers,         \* the timers that are set and have neither fired nor been cleared
    writing,        \* database writes of flushLogs in progress
    pc,             \* pc[p]: where process p stands
    ident,          \* ident[p]: identifier of p's checkRateLimit call
    tnow,           \* tnow[p]: the call's const now
    count,          \* count[p]: the call's const count
    member,         \* member[p]: the call's memberId
    res,            \* res[p]: what the call returned
    \* the middleware
    reqs,           \* requests received so far
    req,            \* req[p]: the request p serves (index into Requests), 0 if none
    rid,            \* rid[p]: the request's requestId (nanoid())
    hd,             \* hd[p]: the headers the limiter has set on the response
    resp,           \* resp[p]: the response: of next(), then of the middleware
    nextCalls,      \* nextCalls[p]: how often the request has called next()
    rb,             \* rb[p]: key and memberId parsed from the Rollback Record
    kv,             \* kv[r]: the text under ratelimit:request:{r}, <<>> if absent
    kvexp,          \* kvexp[r]: when that key expires, or NoTime
    \* the cache
    db,             \* what the fetcher returns now
    cstore,         \* cstore[k]: the text under cache key k, <<>> if absent
    cexp,           \* cexp[k]: when that key expires, or NoTime
    ccalls,         \* cache calls started so far
    icalls,         \* invalidateCache calls started so far
    ckey,           \* ckey[p]: key of p's cache call
    cstart,         \* cstart[p]: when p's cache call began
    fresh,          \* fresh[p]: the call's const fresh
    cres,           \* cres[p]: what the call returned
    nfetch,         \* nfetch[p]: fetcher invocations of the call
    ipat,           \* ipat[p]: pattern of p's invalidateCache call
    ikeys,          \* ikeys[p]: the call's const keys
    ires,           \* ires[p]: what invalidateCache returned (NoTime: it threw)
    \* history of the cache, read by the properties only
    last,           \* last[k]: the cache call for k that returned last
    first,          \* first[p]: last[k] when p's call began
    olap,           \* olap[p]: another cache call for the same key was in flight with p's
    got,            \* got[p]: what the fetcher returned to p's call last
    invO,           \* invO[k]: an invalidation matching k has completed; no cache call for k since
    invA,           \* invA[k]: the same, and no cache call for k was in flight during it
    dirty,          \* dirty[p]: keys with a cache call in flight during p's invalidation
    afterO,         \* afterO[p]: invO[k] when p's call began
    afterA,         \* afterA[p]: invA[k] when p's call began
    \* history of the run, read by the properties only
    overlaps,       \* calls that began while another call was in flight
    interleaved,    \* interleaved[i]: two calls for i have been in flight together
    ncalls,         \* ncalls[i]: calls for i started so far
    firstAt,        \* firstAt[i]: const now of the first call for i
    admits,         \* admits[i]: const now of every call that returned a memberId
    waitRef,        \* waitRef[i]: oldest admission counted by the last denial, until a call is allowed
    resetRef,       \* resetRef[i]: resetAt of the first denial since the last allowed call
    idx,            \* idx[p]: the call is the idx[p]-th for its identifier
    seen,           \* seen[p]: Len(admits[i]) when the call started
    due,            \* due[p]: the call started windowMs or more after waitRef
    late,           \* late[p]: the call started at resetRef or later
    failed,         \* failed[p]: a store command of the call failed
    added           \* added[p]: the call's ZADD reached the store

logVars == <<logQueue, flushTimer, timers, writing>>
rlVars == <<now, ticks, zset, zexp, faults, calls, cfg, logVars>>
engVars == <<pc, ident, tnow, count, member, res>>
mwVars == <<reqs, req, rid, hd, resp, nextCalls, rb, kv, kvexp>>
histVars == <<overlaps, interleaved, ncalls, firstAt, admits, waitRef, resetRef, idx, seen, due, late, failed, added>>
cacheVars ==
    <<db, cstore, cexp, ccalls, icalls, ckey, cstart, fresh, cres, nfetch, ipat, ikeys, ires,
      last, first, olap, got, invO, invA, dirty, afterO, afterA>>
\* what a step of the cache leaves alone
limiterVars ==
    <<zset, zexp, calls, cfg, logVars, ident, tnow, count, member, res, mwVars,
      interleaved, ncalls, firstAt, admits, waitRef, resetRef, idx, seen, due, late, failed, added>>
vars == <<rlVars, engVars, mwVars, histVars, cacheVars>>

\* the maxRequests every call of the run is given
maxRequests == cfg.maxRequests

NoResult == [allowed |-> FALSE, remaining |-> -1, resetAt |-> -1, memberId |-> None]
NoHeaders == [limit |-> <<>>, remaining |-> <<>>, reset |-> <<>>, retryAfter |-> <<>>]
NoResponse == [status |-> 0, by |-> None, retryAfter |-> NoTime]
NoRollback == [key |-> <<>>, memberId |-> <<>>]
NoLast == [valid |-> FALSE, swept |-> FALSE, value |-> JsUndefined, fetches |-> 0, at |-> NoTime]

\* the store is empty and no request is in flight
Start ==
    /\ now = 0
    /\ logQueue = <<>>
    /\ flushTimer = NoTime
    /\ timers = {}
    /\ writing = 0
    /\ ticks = 0
    /\ zset = [i \in Idents |-> {}]
    /\ zexp = [i \in Idents |-> NoTime]
    /\ faults = 0
    /\ calls = 0
    /\ pc = [p \in Procs |-> "idle"]
    /\ ident = [p \in Procs |-> None]
    /\ tnow = [p \in Procs |-> 0]
    /\ count = [p \in Procs |-> 0]
    /\ member = [p \in Procs |-> None]
    /\ res = [p \in Procs |-> NoResult]
    /\ reqs = 0
    /\ req = [p \in Procs |-> 0]
    /\ rid = [p \in Procs |-> 0]
    /\ hd = [p \in Procs |-> NoHeaders]
    /\ resp = [p \in Procs |-> NoResponse]
    /\ nextCalls = [p \in Procs |-> 0]
    /\ rb = [p \in Procs |-> NoRollback]
    /\ kv = [r \in 1..MaxReqs |-> <<>>]
    /\ kvexp = [r \in 1..MaxReqs |-> NoTime]
    /\ overlaps = 0
    /\ interleaved = [i \in Idents |-> FALSE]
    /\ ncalls = [i \in Idents |-> 0]
    /\ firstAt = [i \in Idents |-> NoTime]
    /\ admits = [i \in Idents |-> <<>>]
    /\ waitRef = [i \in Idents |-> NoTime]
    /\ resetRef = [i \in Idents |-> NoTime]
    /\ idx = [p \in Procs |-> 0]
    /\ seen = [p \in Procs |-> 0]
    /\ due = [p \in Procs |-> FALSE]
    /\ late = [p \in Procs |-> FALSE]
    /\ failed = [p \in Procs |-> FALSE]
    /\ added = [p \in Procs |-> FALSE]
    /\ cstore = [k \in CacheKeys |-> <<>>]
    /\ cexp = [k \in CacheKeys |-> NoTime]
    /\ ccalls = 0
    /\ icalls = 0
    /\ ckey = [p \in Procs |-> <<>>]
    /\ cstart = [p \in Procs |-> 0]
    /\ fresh = [p \in Procs |-> JsUndefined]
    /\ cres = [p \in Procs |-> JsUndefined]
    /\ nfetch = [p \in Procs |-> 0]
    /\ ipat = [p \in Procs |-> <<>>]
    /\ ikeys = [p \in Procs |-> {}]
    /\ ires = [p \in Procs |-> 0]
    /\ last = [k \in CacheKeys |-> NoLast]
    /\ first = [p \in Procs |-> NoLast]
    /\ olap = [p \in Procs |-> FALSE]
    /\ got = [p \in Procs |-> JsUndefined]
    /\ invO = [k \in CacheKeys |-> FALSE]
    /\ invA = [k \in CacheKeys |-> FALSE]
    /\ dirty = [p \in Procs |-> {}]
    /\ afterO = [p \in Procs |-> FALSE]
    /\ afterA = [p \in Procs |-> FALSE]

\* checkRateLimit called directly, with a maxRequests of the caller's choice
Init ==
    /\ cfg \in {[DefaultConfig EXCEPT !.maxRequests = n] : n \in 0..MaxMaxRequests}
    /\ db = JsNull
    /\ Start

\* (mutant) a store that never removes a key whose expiry has passed
ExpiredNever(e, t) == FALSE

(***************************************************************************)
(* The clock.  A key whose expiry time has come is gone from the store.    *)
(***************************************************************************)
Expired(e, t) == e # NoTime /\ e <= t

Tick(max) ==
    /\ ticks < max
    /\ ticks' = ticks + 1
    /\ now' = now + TickMs
    /\ zset' = [i \in Idents |-> IF Expired(zexp[i], now + TickMs) THEN {} ELSE zset[i]]
    /\ zexp' = [i \in Idents |-> IF Expired(zexp[i], now + TickMs) THEN NoTime ELSE zexp[i]]
    /\ kv' = [r \in DOMAIN kv |-> IF Expired(kvexp[r], now + TickMs) THEN <<>> ELSE kv[r]]
    /\ kvexp' = [r \in DOMAIN kv |-> IF Expired(kvexp[r], now + TickMs) THEN NoTime ELSE kvexp[r]]
    /\ cstore' = [k \in CacheKeys |-> IF Expired(cexp[k], now + TickMs) THEN <<>> ELSE cstore[k]]
    /\ cexp' = [k \in CacheKeys |-> IF Expired(cexp[k], now + TickMs) THEN NoTime ELSE cexp[k]]
    /\ UNCHANGED <<faults, calls, cfg, logVars, engVars, histVars>>
    /\ UNCHANGED <<reqs, req, rid, hd, resp, nextCalls, rb>>
    /\ UNCHANGED <<db, ccalls, icalls, ckey, cstart, fresh, cres, nfetch, ipat, ikeys, ires>>
    /\ UNCHANGED <<last, first, olap, got, invO, invA, dirty, afterO, afterA>>

(***************************************************************************)
(* checkRateLimit(identifier, maxRequests, windowMs)                       *)
(***************************************************************************)
\* the pcs of a call that is between its first and its last store command
InEngine == {"purge", "card", "zadd", "expire", "zrange"}

MinOf(S) == CHOOSE x \in S : \A y \in S : x <= y

\* the timestamps of admits[i] that a call with const now t still counts
InWindow(i, t) == {k \in DOMAIN admits[i] : admits[i][k] > t - WindowMs}

\* (mutant) a catch block that fails closed
FailClosed(p) ==
    [allowed |-> FALSE, remaining |-> 0,
     resetAt |-> tnow[p] + WindowMs, memberId |-> None]

\* the catch block's result
FailOpen(p) ==
    [allowed |-> TRUE, remaining |-> maxRequests,
     resetAt |-> tnow[p] + WindowMs, memberId |-> None]

\* (mutant) a call that is turned away after its insert
AdmittedAsDenied(p) ==
    [allowed |-> FALSE, remaining |-> 0, resetAt |-> tnow[p] + WindowMs, memberId |-> None]

\* the result of an admitted call
Admitted(p) ==
    [allowed |-> TRUE, remaining |-> maxRequests - count[p] - 1,
     resetAt |-> tnow[p] + WindowMs, memberId |-> member[p]]

\* (mutant) a reset time that announces no wait at all
ResetAtAtOnce(oldestEntry, t) == t

\* (mutant) the reset time always taken from the call's own now
ResetAtFullWindow(oldestEntry, t) == t + WindowMs

\* oldestEntry[1] ? parseInt(oldestEntry[1]) + windowMs : now + windowMs
ResetAtOf(oldestEntry, t) ==
    IF Len(oldestEntry) >= 2 /\ Len(oldestEntry[2]) > 0
    THEN ParseInt(oldestEntry[2]) + WindowMs
    ELSE t + WindowMs

\* the result of a denied call
Denied(p, oldestEntry) ==
    [allowed |-> FALSE, remaining |-> 0,
     resetAt |-> ResetAtOf(oldestEntry, tnow[p]), memberId |-> None]

\* a store command rejects: the catch block logs and returns the fail-open result
Caught(p) ==
    /\ faults + overlaps < MaxDisturbances
    /\ faults' = faults + 1
    /\ failed' = [failed EXCEPT ![p] = TRUE]
    /\ res' = [res EXCEPT ![p] = FailOpen(p)]
    /\ pc' = [pc EXCEPT ![p] = "ret"]
    /\ waitRef' = [waitRef EXCEPT ![ident[p]] = NoTime]
    /\ resetRef' = [resetRef EXCEPT ![ident[p]] = NoTime]

\* the process that serves the next call or request: the first one whose pc is in free
FirstFree(free) ==
    IF \E p \in Procs : pc[p] \in free
    THEN CHOOSE p \in Procs :
             pc[p] \in free /\ \A q \in Procs : pc[q] \in free => ProcOrder[p] <= ProcOrder[q]
    ELSE None

\* the locals f when p begins with value v; the frames of the processes
\* whose pc is in over (their call or request has ended) are gone by then
Begin(f, p, v, empty, over) ==
    [q \in Procs |-> IF q = p THEN v ELSE IF pc[q] \in over THEN empty ELSE f[q]]

\* const key, now, windowStart: p's call for identifier i begins
CallBegins(p, i, over) ==
    /\ calls' = calls + 1
    /\ pc' = Begin(pc, p, "purge", "idle", over)
    /\ ident' = Begin(ident, p, i, None, over)
    /\ tnow' = Begin(tnow, p, now, 0, over)
    /\ count' = Begin(count, p, 0, 0, over)
    /\ member' = Begin(member, p, None, None, over)
    /\ res' = Begin(res, p, NoResult, NoResult, over)
    /\ interleaved' = [interleaved EXCEPT ![i] =
           @ \/ \E q \in Procs \ {p} : pc[q] \in InEngine /\ ident[q] = i]
    /\ ncalls' = [ncalls EXCEPT ![i] = @ + 1]
    /\ firstAt' = [firstAt EXCEPT ![i] = IF @ = NoTime THEN now ELSE @]
    /\ idx' = Begin(idx, p, ncalls[i] + 1, 0, over)
    /\ seen' = Begin(seen, p, Len(admits[i]), 0, over)
    /\ due' = Begin(due, p, waitRef[i] # NoTime /\ now >= waitRef[i] + WindowMs, FALSE, over)
    /\ late' = Begin(late, p, resetRef[i] # NoTime /\ now >= resetRef[i], FALSE, over)
    /\ failed' = Begin(failed, p, FALSE, FALSE, over)
    /\ added' = Begin(added, p, FALSE, FALSE, over)

\* a caller calls checkRateLimit
StartCall(p, i) ==
    /\ p = FirstFree({"idle", "ret"})
    /\ calls < MaxCalls
    /\ overlaps' = overlaps + (IF \E q \in Procs : pc[q] \in InEngine THEN 1 ELSE 0)
    /\ faults + overlaps' <= MaxDisturbances
    /\ CallBegins(p, i, {"ret"})
    /\ UNCHANGED <<now, ticks, zset, zexp, faults, cfg, logVars, admits, waitRef, resetRef>>
    /\ UNCHANGED <<mwVars, cacheVars>>

\* await redis.zremrangebyscore(key, "-inf", windowStart)
Purge(p) ==
    /\ pc[p] = "purge"
    /\ LET i == ident[p]
           purged == ZRemRangeByScore(zset[i], tnow[p] - WindowMs)
       IN  \/ /\ zset' = [zset EXCEPT ![i] = purged]
              /\ zexp' = [zexp EXCEPT ![i] = IF purged = {} THEN NoTime ELSE @]
              /\ pc' = [pc EXCEPT ![p] = "card"]
              /\ UNCHANGED <<faults, res, failed, waitRef, resetRef>>
           \/ /\ Caught(p)
              /\ \/ UNCHANGED <<zset, zexp>>
                 \/ /\ zset' = [zset EXCEPT ![i] = purged]
                    /\ zexp' = [zexp EXCEPT ![i] = IF purged = {} THEN NoTime ELSE @]
    /\ UNCHANGED <<now, ticks, calls, cfg, logVars, ident, tnow, count, member>>
    /\ UNCHANGED <<overlaps, interleaved, ncalls, firstAt, admits, idx, seen, due, late, added>>
    /\ UNCHANGED <<mwVars, cacheVars>>

\* const count = await redis.zcard(key); if (count < maxRequests)
Card(p) ==
    /\ pc[p] = "card"
    /\ \/ /\ count' = [count EXCEPT ![p] = ZCard(zset[ident[p]])]
          /\ pc' = [pc EXCEPT ![p] =
                 IF ZCard(zset[ident[p]]) < maxRequests THEN "zadd" ELSE "zrange"]
          /\ UNCHANGED <<faults, res, failed, waitRef, resetRef>>
       \/ /\ Caught(p)
          /\ UNCHANGED count
    /\ UNCHANGED <<now, ticks, zset, zexp, calls, cfg, logVars, ident, tnow, member>>
    /\ UNCHANGED <<overlaps, interleaved, ncalls, firstAt, admits, idx, seen, due, late, added>>
    /\ UNCHANGED <<mwVars, cacheVars>>

\* const memberId = ...; await redis.zadd(key, now, memberId)
Zadd(p) ==
    /\ pc[p] = "zadd"
    /\ \E draw \in RandomDraws :
         LET i == ident[p]
             m == MemberId(tnow[p], draw)
         IN  /\ member' = [member EXCEPT ![p] = m]
             /\ \/ /\ zset' = [zset EXCEPT ![i] = ZAdd(@, tnow[p], m)]
                   /\ added' = [added EXCEPT ![p] = TRUE]
                   /\ pc' = [pc EXCEPT ![p] = "expire"]
                   /\ UNCHANGED <<faults, res, failed, waitRef, resetRef>>
                \/ /\ Caught(p)
                   /\ \/ UNCHANGED <<zset, added>>
                      \/ /\ zset' = [zset EXCEPT ![i] = ZAdd(@, tnow[p], m)]
                         /\ added' = [added EXCEPT ![p] = TRUE]
    /\ UNCHANGED <<now, ticks, zexp, calls, cfg, logVars, ident, tnow, count>>
    /\ UNCHANGED <<overlaps, interleaved, ncalls, firstAt, admits, idx, seen, due, late>>
    /\ UNCHANGED <<mwVars, cacheVars>>

\* await redis.expire(key, Math.ceil(windowMs / 1000) + 1); return { allowed: true, ... }
Expire(p) ==
    /\ pc[p] = "expire"
    /\ LET i == ident[p]
           \* EXPIRE on an absent key does nothing
           set == [zexp EXCEPT ![i] =
                      IF zset[i] = {} THEN @ ELSE now + 1000 * ExpirySeconds(WindowMs)]
       IN  \/ /\ zexp' = set
              /\ res' = [res EXCEPT ![p] = Admitted(p)]
              /\ pc' = [pc EXCEPT ![p] = "ret"]
              /\ admits' = [admits EXCEPT ![i] = Append(@, tnow[p])]
              /\ waitRef' = [waitRef EXCEPT ![i] = NoTime]
              /\ resetRef' = [resetRef EXCEPT ![i] = NoTime]
              /\ UNCHANGED <<faults, failed>>
           \/ /\ Caught(p)
              /\ \/ zexp' = zexp
                 \/ zexp' = set
              /\ UNCHANGED admits
    /\ UNCHANGED <<now, ticks, zset, calls, cfg, logVars, ident, tnow, count, member>>
    /\ UNCHANGED <<overlaps, interleaved, ncalls, firstAt, idx, seen, due, late, added>>
    /\ UNCHANGED <<mwVars, cacheVars>>

\* const oldestEntry = await redis.zrange(key, 0, 0, "WITHSCORES"); return { allowed: false, ... }
Zrange(p) ==
    /\ pc[p] = "zrange"
    /\ LET i == ident[p]
           w == InWindow(i, tnow[p])
       IN  \/ /\ res' = [res EXCEPT ![p] = Denied(p, ZRangeFirstWithScores(zset[i]))]
              /\ pc' = [pc EXCEPT ![p] = "ret"]
              /\ waitRef' = [waitRef EXCEPT ![i] =
                     IF w = {} THEN NoTime ELSE MinOf({admits[i][k] : k \in w})]
              /\ resetRef' = [resetRef EXCEPT ![i] =
                     IF @ = NoTime
                     THEN Denied(p, ZRangeFirstWithScores(zset[i])).resetAt
                     ELSE @]
              /\ UNCHANGED <<faults, failed>>
           \/ Caught(p)
    /\ UNCHANGED <<now, ticks, zset, zexp, calls, cfg, logVars, ident, tnow, count, member>>
    /\ UNCHANGED <<overlaps, interleaved, ncalls, firstAt, admits, idx, seen, due, late, added>>
    /\ UNCHANGED <<mwVars, cacheVars>>

Next ==
    \/ Tick(MaxTicks)
    \/ \E p \in Procs :
        \/ \E i \in Idents : StartCall(p, i)
        \/ Purge(p)
        \/ Card(p)
        \/ Zadd(p)
        \/ Expire(p)
        \/ Zrange(p)

Spec == Init /\ [][Next]_vars

(***************************************************************************)
(* rateLimiter(config): the middleware around one request                  *)
(***************************************************************************)
\* (mutant) a whitelist that is never consulted
BypassNothing(ip) == FALSE

\* finalConfig.whitelist && finalConfig.whitelist.includes(ip)
Bypass(ip) == cfg.hasWhitelist /\ Includes(cfg.whitelist, ip)

\* the middleware hands request k to next() without calling the engine: the
\* whitelist, or the outer catch after the generator's throw
Unchecked(k) == Bypass(GetClientIp(Requests[k])) \/ KeyGeneratorThrows(Requests[k])

\* what next() can settle with: a response of the downstream stage, or a rejection
DownstreamResponses ==
    { [status |-> 200, by |-> "downstream", retryAfter |-> NoTime],
      [status |-> 500, by |-> "downstream", retryAfter |-> NoTime],
      [status |-> 0, by |-> "error", retryAfter |-> NoTime] }

\* the response of a caller-supplied handler
HandlerResponse == [status |-> 503, by |-> "handler", retryAfter |-> NoTime]

\* c.json({ error, message, retryAfter: resetTime }, 429)
TooManyRequests(resetTime) == [status |-> 429, by |-> "limiter", retryAfter |-> resetTime]

\* Math.ceil((resetAt.getTime() - Date.now()) / 1000)
ResetTime(resetAt) == CeilDiv(resetAt - now, 1000)

\* the headers of a denied request
DeniedHeaders(p) ==
    IF cfg.standardHeaders
    THEN [limit |-> IntString(maxRequests),
          remaining |-> <<"0">>,
          reset |-> IntString(ResetTime(res[p].resetAt)),
          retryAfter |-> IntString(ResetTime(res[p].resetAt))]
    ELSE hd[p]

\* the headers of a request that goes on
AllowedHeaders(p) ==
    IF cfg.standardHeaders
    THEN [limit |-> IntString(maxRequests),
          remaining |-> IntString(res[p].remaining),
          reset |-> IntString(ResetTime(res[p].resetAt)),
          retryAfter |-> <<>>]
    ELSE hd[p]

\* (skipSuccessfulRequests && status < 400) || (skipFailedRequests && status >= 400)
SkipMatches(status) ==
    \/ cfg.skipSuccessfulRequests /\ status < 400
    \/ cfg.skipFailedRequests /\ status >= 400

\* the middleware returns response
Finish(p, response) ==
    /\ pc' = [pc EXCEPT ![p] = "done"]
    /\ resp' = [resp EXCEPT ![p] = response]
    /\ UNCHANGED nextCalls

\* (mutant) an outer catch that answers the request itself
CatchAnswers(p) == Finish(p, TooManyRequests(0))

\* the outer catch: logger.error(...); return next()
CatchNext(p) ==
    /\ nextCalls' = [nextCalls EXCEPT ![p] = @ + 1]
    /\ pc' = [pc EXCEPT ![p] = "done"]
    /\ \E out \in DownstreamResponses : resp' = [resp EXCEPT ![p] = out]

\* the frame of a request that calls the engine not at all: return next()
NoCall(p, over) ==
    /\ pc' = Begin(pc, p, "down", "idle", over)
    /\ ident' = Begin(ident, p, None, None, over)
    /\ tnow' = Begin(tnow, p, 0, 0, over)
    /\ count' = Begin(count, p, 0, 0, over)
    /\ member' = Begin(member, p, None, None, over)
    /\ res' = Begin(res, p, NoResult, NoResult, over)
    /\ idx' = Begin(idx, p, 0, 0, over)
    /\ seen' = Begin(seen, p, 0, 0, over)
    /\ due' = Begin(due, p, FALSE, FALSE, over)
    /\ late' = Begin(late, p, FALSE, FALSE, over)
    /\ failed' = Begin(failed, p, FALSE, FALSE, over)
    /\ added' = Begin(added, p, FALSE, FALSE, over)
    /\ UNCHANGED <<calls, interleaved, ncalls, firstAt>>

\* a request arrives: the whitelist check, the identifier (the outer catch when
\* the generator throws), the call of checkRateLimit
Request(p, k) ==
    /\ p = FirstFree({"idle", "done"})
    /\ reqs < MaxReqs
    /\ reqs' = reqs + 1
    /\ overlaps' = overlaps + (IF \E q \in Procs : pc[q] \notin {"idle", "done"} THEN 1 ELSE 0)
    /\ faults + overlaps' <= MaxDisturbances
    /\ req' = Begin(req, p, k, 0, {"done"})
    /\ rid' = Begin(rid, p, reqs + 1, 0, {"done"})
    /\ hd' = Begin(hd, p, NoHeaders, NoHeaders, {"done"})
    /\ resp' = Begin(resp, p, NoResponse, NoResponse, {"done"})
    /\ rb' = Begin(rb, p, NoRollback, NoRollback, {"done"})
    /\ IF Unchecked(k)
       THEN /\ nextCalls' = Begin(nextCalls, p, 1, 0, {"done"})
            /\ NoCall(p, {"done"})
       ELSE /\ nextCalls' = Begin(nextCalls, p, 0, 0, {"done"})
            /\ CallBegins(p, KeyGenerator(Requests[k]), {"done"})
    /\ UNCHANGED <<now, ticks, zset, zexp, faults, cfg, logVars, kv, kvexp, admits, waitRef, resetRef>>
    /\ UNCHANGED cacheVars

\* checkRateLimit has returned: the Rollback Record, then the denial or next()
AfterCheck(p) ==
    /\ pc[p] = "ret"
    /\ req[p] # 0
    /\ LET r == res[p]
           record == (cfg.skipSuccessfulRequests \/ cfg.skipFailedRequests) /\ r.memberId # None
           text == RecordJson(ident[p], now, r.memberId)
           written == /\ kv' = [kv EXCEPT ![rid[p]] = text]
                      /\ kvexp' = [kvexp EXCEPT ![rid[p]] = now + 1000 * RecordTtlSeconds]
       IN  \/ \* await setWithExpiry(...) rejects
              /\ record
              /\ faults + overlaps < MaxDisturbances
              /\ faults' = faults + 1
              /\ \/ UNCHANGED <<kv, kvexp>>
                 \/ written
              /\ CatchNext(p)
              /\ UNCHANGED hd
           \/ /\ IF record THEN written ELSE UNCHANGED <<kv, kvexp>>
              /\ UNCHANGED faults
              /\ IF ~r.allowed
                 THEN /\ hd' = [hd EXCEPT ![p] = DeniedHeaders(p)]
                      /\ IF cfg.handler
                         THEN \/ Finish(p, HandlerResponse)
                              \/ \* the handler throws
                                 CatchNext(p)
                         ELSE Finish(p, TooManyRequests(ResetTime(r.resetAt)))
                 ELSE /\ hd' = [hd EXCEPT ![p] = AllowedHeaders(p)]
                      /\ nextCalls' = [nextCalls EXCEPT ![p] = @ + 1]
                      /\ pc' = [pc EXCEPT ![p] = "down"]
                      /\ UNCHANGED resp
    /\ UNCHANGED <<now, ticks, zset, zexp, calls, cfg, logVars, ident, tnow, count, member, res>>
    /\ UNCHANGED <<reqs, req, rid, rb, histVars>>
    /\ UNCHANGED cacheVars

\* next() settles; the skip condition on response.status
Downstream(p) ==
    /\ pc[p] = "down"
    /\ \E out \in DownstreamResponses :
         IF out.by = "error"
         THEN IF Unchecked(req[p])
              THEN Finish(p, out)
              ELSE CatchNext(p)
         ELSE IF ~Unchecked(req[p]) /\ SkipMatches(out.status)
              THEN /\ resp' = [resp EXCEPT ![p] = out]
                   /\ pc' = [pc EXCEPT ![p] = "lookup"]
                   /\ UNCHANGED nextCalls
              ELSE Finish(p, out)
    /\ UNCHANGED <<rlVars, ident, tnow, count, member, res>>
    /\ UNCHANGED <<reqs, req, rid, hd, rb, kv, kvexp, histVars>>
    /\ UNCHANGED cacheVars

\* const requestInfo = await getValue(`ratelimit:request:${requestId}`); JSON.parse
RollbackLookup(p) ==
    /\ pc[p] = "lookup"
    /\ \/ \* getValue rejects, outside the inner try
          /\ faults + overlaps < MaxDisturbances
          /\ faults' = faults + 1
          /\ CatchNext(p)
          /\ UNCHANGED rb
       \/ /\ UNCHANGED <<faults, nextCalls, resp>>
          /\ LET requestInfo == kv[rid[p]]
                 key == JsonField(requestInfo, "key")
                 storedMemberId == JsonField(requestInfo, "memberId")
             IN  IF Len(requestInfo) > 0 /\ Len(key) > 0 /\ Len(storedMemberId) > 0
                 THEN /\ rb' = [rb EXCEPT ![p] = [key |-> key, memberId |-> storedMemberId]]
                      /\ pc' = [pc EXCEPT ![p] = "zrem"]
                 ELSE /\ pc' = [pc EXCEPT ![p] = "done"]
                      /\ UNCHANGED rb
    /\ UNCHANGED <<now, ticks, zset, zexp, calls, cfg, logVars, ident, tnow, count, member, res>>
    /\ UNCHANGED <<reqs, req, rid, hd, kv, kvexp, histVars>>
    /\ UNCHANGED cacheVars

\* await redis.zrem(key, storedMemberId)
RollbackZrem(p) ==
    /\ pc[p] = "zrem"
    /\ LET i == KeyIdent(rb[p].key)
           removed == ZRem(zset[i], rb[p].memberId)
           applied == /\ zset' = [zset EXCEPT ![i] = removed]
                      /\ zexp' = [zexp EXCEPT ![i] = IF removed = {} THEN NoTime ELSE @]
       IN  \/ /\ applied
              /\ pc' = [pc EXCEPT ![p] = "delete"]
              /\ UNCHANGED faults
           \/ \* the inner catch: logger.warn(...); return response
              /\ faults + overlaps < MaxDisturbances
              /\ faults' = faults + 1
              /\ \/ UNCHANGED <<zset, zexp>>
                 \/ applied
              /\ pc' = [pc EXCEPT ![p] = "done"]
    /\ UNCHANGED <<now, ticks, calls, cfg, logVars, ident, tnow, count, member, res>>
    /\ UNCHANGED <<mwVars, histVars>>
    /\ UNCHANGED cacheVars

\* await deleteKey(`ratelimit:request:${requestId}`); return response
RollbackDelete(p) ==
    /\ pc[p] = "delete"
    /\ LET deleted == /\ kv' = [kv EXCEPT ![rid[p]] = <<>>]
                      /\ kvexp' = [kvexp EXCEPT ![rid[p]] = NoTime]
       IN  \/ /\ deleted
              /\ UNCHANGED faults
           \/ /\ faults + overlaps < MaxDisturbances
              /\ faults' = faults + 1
              /\ \/ UNCHANGED <<kv, kvexp>>
                 \/ deleted
    /\ pc' = [pc EXCEPT ![p] = "done"]
    /\ UNCHANGED <<now, ticks, zset, zexp, calls, cfg, logVars, ident, tnow, count, member, res>>
    /\ UNCHANGED <<reqs, req, rid, hd, resp, nextCalls, rb, histVars>>
    /\ UNCHANGED cacheVars

\* the limiter is created with one of the configurations
InitMw ==
    /\ cfg \in Configs
    /\ db = JsNull
    /\ Start

NextMw ==
    \/ Tick(MaxMwTicks)
    \/ \E p \in Procs :
        \/ \E k \in 1..Len(Requests) : Request(p, k)
        \/ Purge(p)
        \/ Card(p)
        \/ Zadd(p)
        \/ Expire(p)
        \/ Zrange(p)
        \/ AfterCheck(p)
        \/ Downstream(p)
        \/ RollbackLookup(p)
        \/ RollbackZrem(p)
        \/ RollbackDelete(p)

SpecMw == InitMw /\ [][NextMw]_vars

(***************************************************************************)
(* cache(key, fetcher, ttlSeconds) and invalidateCache(pattern)            *)
(***************************************************************************)
\* a process that runs no cache or invalidateCache call
CacheFree == {"idle", "cret", "iret"}
\* the calls that have returned
CacheOver == {"cret", "iret"}
\* the pcs of a cache call in flight
InCache == {"cget", "cfetch", "cset", "crefetch"}
\* the pcs of an invalidateCache call in flight
InInvalidate == {"ikeys", "idel"}

\* the cache call returns v after n fetcher invocations
Returns(p, v, n) ==
    /\ cres' = [cres EXCEPT ![p] = v]
    /\ pc' = [pc EXCEPT ![p] = "cret"]
    /\ last' = [last EXCEPT ![ckey[p]] =
           [valid |-> ~olap[p] /\ ~first[p].swept, swept |-> FALSE,
            value |-> v, fetches |-> n, at |-> cstart[p]]]

\* the frames of the calls that have returned are gone when p begins a call
CallFrames(p, key, pattern) ==
    /\ ckey' = Begin(ckey, p, key, <<>>, CacheOver)
    /\ cstart' = Begin(cstart, p, now, 0, CacheOver)
    /\ fresh' = Begin(fresh, p, JsUndefined, JsUndefined, CacheOver)
    /\ cres' = Begin(cres, p, JsUndefined, JsUndefined, CacheOver)
    /\ got' = Begin(got, p, JsUndefined, JsUndefined, CacheOver)
    /\ nfetch' = Begin(nfetch, p, 0, 0, CacheOver)
    /\ ipat' = Begin(ipat, p, pattern, <<>>, CacheOver)
    /\ ikeys' = Begin(ikeys, p, {}, {}, CacheOver)
    /\ ires' = Begin(ires, p, 0, 0, CacheOver)
    /\ overlaps' = overlaps + (IF \E q \in Procs : pc[q] \notin CacheFree THEN 1 ELSE 0)
    /\ faults + overlaps' <= MaxDisturbances

\* a router calls cache(key, fetcher, ttlSeconds)
StartCache(p, k) ==
    /\ p = FirstFree(CacheFree)
    /\ ccalls < MaxCacheCalls
    /\ ccalls' = ccalls + 1
    /\ pc' = Begin(pc, p, "cget", "idle", CacheOver)
    /\ CallFrames(p, k, <<>>)
    /\ first' = Begin(first, p, last[k], NoLast, CacheOver)
    /\ olap' = [q \in Procs |->
                  IF q = p THEN \E r \in Procs : pc[r] \in InCache /\ ckey[r] = k
                  ELSE IF pc[q] \in CacheOver THEN FALSE
                  ELSE olap[q] \/ (pc[q] \in InCache /\ ckey[q] = k)]
    /\ afterO' = Begin(afterO, p, invO[k], FALSE, CacheOver)
    /\ afterA' = Begin(afterA, p, invA[k], FALSE, CacheOver)
    /\ invO' = [invO EXCEPT ![k] = FALSE]
    /\ invA' = [invA EXCEPT ![k] = FALSE]
    /\ dirty' = [q \in Procs |->
                  IF pc[q] \in InInvalidate THEN dirty[q] \cup {k} ELSE {}]
    /\ UNCHANGED <<db, cstore, cexp, icalls, last>>
    /\ UNCHANGED <<now, ticks, faults>>
    /\ UNCHANGED limiterVars

\* const cached = await getJson(key); if (cached !== null) return cached
CacheGet(p) ==
    /\ pc[p] = "cget"
    /\ LET text == cstore[ckey[p]]
       IN  \/ /\ UNCHANGED faults
              /\ IF Len(text) = 0
                 THEN /\ pc' = [pc EXCEPT ![p] = "cfetch"]
                      /\ UNCHANGED <<cres, last>>
                 ELSE IF ~Parsable(text)
                 THEN \* JSON.parse throws: the catch block
                      /\ pc' = [pc EXCEPT ![p] = "crefetch"]
                      /\ UNCHANGED <<cres, last>>
                 ELSE IF JsonParse(text) # JsNull
                 THEN Returns(p, JsonParse(text), nfetch[p])
                 ELSE /\ pc' = [pc EXCEPT ![p] = "cfetch"]
                      /\ UNCHANGED <<cres, last>>
           \/ \* redis.get rejects: the catch block
              /\ faults + overlaps < MaxDisturbances
              /\ faults' = faults + 1
              /\ pc' = [pc EXCEPT ![p] = "crefetch"]
              /\ UNCHANGED <<cres, last>>
    /\ UNCHANGED <<db, cstore, cexp, ccalls, icalls, ckey, cstart, fresh, nfetch>>
    /\ UNCHANGED <<ipat, ikeys, ires, first, olap, got, invO, invA, dirty>>
    /\ UNCHANGED <<afterO, afterA, now, ticks, overlaps>>
    /\ UNCHANGED limiterVars

\* const fresh = await fetcher()
CacheFetch(p) ==
    /\ pc[p] = "cfetch"
    /\ fresh' = [fresh EXCEPT ![p] = db]
    /\ got' = [got EXCEPT ![p] = db]
    /\ nfetch' = [nfetch EXCEPT ![p] = @ + 1]
    /\ pc' = [pc EXCEPT ![p] = "cset"]
    /\ UNCHANGED <<db, cstore, cexp, ccalls, icalls, ckey, cstart, cres>>
    /\ UNCHANGED <<ipat, ikeys, ires, last, first, olap, invO, invA, dirty>>
    /\ UNCHANGED <<afterO, afterA, now, ticks, faults, overlaps>>
    /\ UNCHANGED limiterVars

\* await setJson(key, fresh, ttlSeconds); return fresh
CacheSet(p) ==
    /\ pc[p] = "cset"
    /\ LET k == ckey[p]
           stored == /\ cstore' = [cstore EXCEPT ![k] = JsonStringify(fresh[p])]
                     /\ cexp' = [cexp EXCEPT ![k] =
                            IF TtlSeconds # 0 THEN now + 1000 * TtlSeconds ELSE NoTime]
       IN  \/ /\ stored
              /\ Returns(p, fresh[p], nfetch[p])
              /\ UNCHANGED faults
           \/ \* setex rejects: the catch block
              /\ faults + overlaps < MaxDisturbances
              /\ faults' = faults + 1
              /\ \/ UNCHANGED <<cstore, cexp>>
                 \/ stored
              /\ pc' = [pc EXCEPT ![p] = "crefetch"]
              /\ UNCHANGED <<cres, last>>
    /\ UNCHANGED <<db, ccalls, icalls, ckey, cstart, fresh, nfetch>>
    /\ UNCHANGED <<ipat, ikeys, ires, first, olap, got, invO, invA, dirty>>
    /\ UNCHANGED <<afterO, afterA, now, ticks, overlaps>>
    /\ UNCHANGED limiterVars

\* catch (error) { return fetcher() }
CacheRefetch(p) ==
    /\ pc[p] = "crefetch"
    /\ got' = [got EXCEPT ![p] = db]
    /\ nfetch' = [nfetch EXCEPT ![p] = @ + 1]
    /\ Returns(p, db, nfetch[p] + 1)
    /\ UNCHANGED <<db, cstore, cexp, ccalls, icalls, ckey, cstart, fresh>>
    /\ UNCHANGED <<ipat, ikeys, ires, first, olap, invO, invA, dirty>>
    /\ UNCHANGED <<afterO, afterA, now, ticks, faults, overlaps>>
    /\ UNCHANGED limiterVars

\* a step of an invalidateCache call: no two cache calls around it count as
\* calls without an invalidation in between, and a cache call in flight has
\* seen a sweep
Sweeping ==
    /\ last' = [k \in CacheKeys |-> [last[k] EXCEPT !.valid = FALSE]]
    /\ first' = [q \in Procs |->
                   [first[q] EXCEPT !.valid = FALSE, !.swept = pc[q] \in InCache]]

\* a mutation endpoint has changed the data the fetchers read, and calls
\* invalidateCache(pattern)
StartInvalidate(p, pattern) ==
    /\ p = FirstFree(CacheFree)
    /\ icalls < MaxInvalidations
    /\ icalls' = icalls + 1
    /\ db' \in FetchValues \ {db}
    /\ pc' = Begin(pc, p, "ikeys", "idle", CacheOver)
    /\ CallFrames(p, <<>>, pattern)
    /\ Sweeping
    /\ olap' = Begin(olap, p, FALSE, FALSE, CacheOver)
    /\ afterO' = Begin(afterO, p, FALSE, FALSE, CacheOver)
    /\ afterA' = Begin(afterA, p, FALSE, FALSE, CacheOver)
    /\ dirty' = [q \in Procs |->
                  IF q = p THEN {k \in CacheKeys : \E r \in Procs : pc[r] \in InCache /\ ckey[r] = k}
                  ELSE IF pc[q] \in InInvalidate THEN dirty[q] ELSE {}]
    /\ UNCHANGED <<cstore, cexp, ccalls, invO, invA>>
    /\ UNCHANGED <<now, ticks, faults>>
    /\ UNCHANGED limiterVars

\* invalidateCache returns n: the keys the pattern matches have been swept
Completed(p, n) ==
    /\ pc' = [pc EXCEPT ![p] = "iret"]
    /\ ires' = [ires EXCEPT ![p] = n]
    /\ invO' = [k \in CacheKeys |->
                  IF GlobMatches(ipat[p], k)
                  THEN ~\E q \in Procs : pc[q] \in InCache /\ ckey[q] = k
                  ELSE invO[k]]
    /\ invA' = [k \in CacheKeys |->
                  IF GlobMatches(ipat[p], k)
                  THEN k \notin dirty[p] /\ ~\E q \in Procs : pc[q] \in InCache /\ ckey[q] = k
                  ELSE invA[k]]

\* invalidateCache throws
Thrown(p) ==
    /\ faults + overlaps < MaxDisturbances
    /\ faults' = faults + 1
    /\ pc' = [pc EXCEPT ![p] = "iret"]
    /\ ires' = [ires EXCEPT ![p] = NoTime]
    /\ UNCHANGED <<invO, invA>>

\* const keys = await redis.keys(pattern); if (keys.length === 0) return 0
InvalidateKeys(p) ==
    /\ pc[p] = "ikeys"
    /\ Sweeping
    /\ LET keys == {k \in CacheKeys : Len(cstore[k]) > 0 /\ GlobMatches(ipat[p], k)}
       IN  \/ /\ UNCHANGED faults
              /\ IF keys = {}
                 THEN /\ Completed(p, 0)
                      /\ UNCHANGED ikeys
                 ELSE /\ ikeys' = [ikeys EXCEPT ![p] = keys]
                      /\ pc' = [pc EXCEPT ![p] = "idel"]
                      /\ UNCHANGED <<ires, invO, invA>>
           \/ /\ Thrown(p)
              /\ UNCHANGED ikeys
    /\ UNCHANGED <<db, cstore, cexp, ccalls, icalls, ckey, cstart, fresh, cres, nfetch>>
    /\ UNCHANGED <<ipat, olap, got, dirty>>
    /\ UNCHANGED <<afterO, afterA, now, ticks, overlaps>>
    /\ UNCHANGED limiterVars

\* const deleted = await redis.del(...keys); return deleted
InvalidateDel(p) ==
    /\ pc[p] = "idel"
    /\ Sweeping
    /\ LET deleted == Cardinality({k \in ikeys[p] : Len(cstore[k]) > 0})
           swept == /\ cstore' = Del(cstore, ikeys[p])
                    /\ cexp' = [k \in CacheKeys |-> IF k \in ikeys[p] THEN NoTime ELSE cexp[k]]
       IN  \/ /\ swept
              /\ Completed(p, deleted)
              /\ UNCHANGED faults
           \/ /\ Thrown(p)
              /\ \/ UNCHANGED <<cstore, cexp>>
                 \/ swept
    /\ UNCHANGED <<db, ccalls, icalls, ckey, cstart, fresh, cres, nfetch>>
    /\ UNCHANGED <<ipat, ikeys, olap, got, dirty>>
    /\ UNCHANGED <<afterO, afterA, now, ticks, overlaps>>
    /\ UNCHANGED limiterVars

\* the routers run against an empty cache
InitCache ==
    /\ cfg = DefaultConfig
    /\ db \in FetchValues
    /\ Start

NextCache ==
    \/ Tick(MaxCacheTicks)
    \/ \E p \in Procs :
        \/ \E k \in CacheKeys : StartCache(p, k)
        \/ CacheGet(p)
        \/ CacheFetch(p)
        \/ CacheSet(p)
        \/ CacheRefetch(p)
        \/ \E pattern \in Patterns : StartInvalidate(p, pattern)
        \/ InvalidateKeys(p)
        \/ InvalidateDel(p)

SpecCache == InitCache /\ [][NextCache]_vars

(***************************************************************************)
(* cache on a store whose payloads another writer can damage               *)
(***************************************************************************)
\* a payload JSON.parse throws on: a truncated object
Corrupt == <<"{">>

\* the payload stored under k is damaged; the key keeps its expiry
Damage(k) ==
    /\ Len(cstore[k]) > 0
    /\ faults + overlaps < MaxDisturbances
    /\ faults' = faults + 1
    /\ cstore' = [cstore EXCEPT ![k] = Corrupt]
    /\ UNCHANGED <<db, cexp, ccalls, icalls, ckey, cstart, fresh, cres, nfetch>>
    /\ UNCHANGED <<ipat, ikeys, ires, last, first, olap, got, invO, invA, dirty>>
    /\ UNCHANGED <<afterO, afterA, now, ticks, overlaps>>
    /\ UNCHANGED <<pc, limiterVars>>

NextCorrupt ==
    \/ NextCache
    \/ \E k \in CacheKeys : Damage(k)

SpecCorrupt == InitCache /\ [][NextCorrupt]_vars

(***************************************************************************)
(* The server log batching queue: saveLogToDatabase, flushLogs              *)
(***************************************************************************)
\* (mutant) a flush that leaves the handle in flushTimer
FlushTimerKept(handle) == handle

\* clearTimeout(flushTimer); flushTimer = null
FlushTimerCleared(handle) == NoTime

\* flushLogs() up to its await, on the queue q and the live timers: nothing
\* on an empty queue; else the queue is taken, the timer cleared and the
\* database write begun
FlushLogs(q, live) ==
    IF Len(q) = 0
    THEN /\ logQueue' = q
         /\ timers' = live
         /\ UNCHANGED <<flushTimer, writing>>
    ELSE /\ writing < MaxWriting
         /\ logQueue' = <<>>
         /\ timers' = IF flushTimer # NoTime THEN live \ {flushTimer} ELSE live
         /\ flushTimer' = IF flushTimer # NoTime THEN FlushTimerCleared(flushTimer) ELSE flushTimer
         /\ writing' = writing + 1

\* what the log queue's steps leave alone
LogFrame == UNCHANGED <<zset, zexp, faults, calls, cfg, engVars, mwVars, histVars, cacheVars>>

\* saveLogToDatabase(logData): push, then the flush at BATCH_SIZE or the timer
SaveLogToDatabase ==
    /\ LET q == Append(logQueue, now)
       IN  IF Len(q) >= BATCH_SIZE
           THEN FlushLogs(q, timers)
           ELSE /\ logQueue' = q
                /\ IF flushTimer = NoTime
                   THEN /\ flushTimer' = now + FLUSH_INTERVAL
                        /\ timers' = timers \cup {now + FLUSH_INTERVAL}
                   ELSE UNCHANGED <<flushTimer, timers>>
                /\ UNCHANGED writing
    /\ UNCHANGED <<now, ticks>>
    /\ LogFrame

\* the timer set by saveLogToDatabase fires: await flushLogs()
TimerFires ==
    /\ \E handle \in timers :
         /\ handle <= now
         /\ FlushLogs(logQueue, timers \ {handle})
    /\ UNCHANGED <<now, ticks>>
    /\ LogFrame

\* forceFlushLogs(), and the flushLogs() of the exit handlers
ForceFlushLogs ==
    /\ FlushLogs(logQueue, timers)
    /\ UNCHANGED <<now, ticks>>
    /\ LogFrame

\* await db.insert(logs).values(logsToWrite) settles; after a rejection the
\* critical logs are written one by one: neither touches the queue or the timer
WriteSettles ==
    /\ writing > 0
    /\ writing' = writing - 1
    /\ UNCHANGED <<logQueue, flushTimer, timers, now, ticks>>
    /\ LogFrame

\* time passes, up to the next timer: a timer fires when it is due
LogTick ==
    /\ ticks < MaxLogTicks
    /\ \A handle \in timers : now < handle
    /\ ticks' = ticks + 1
    /\ now' = IF timers # {} /\ MinOf(timers) < now + LogTickMs
              THEN MinOf(timers)
              ELSE now + LogTickMs
    /\ UNCHANGED <<logQueue, flushTimer, timers, writing>>
    /\ LogFrame

\* the module is loaded: let logQueue = [], flushTimer = null
InitLog ==
    /\ cfg = DefaultConfig
    /\ db = JsNull
    /\ Start

NextLog ==
    \/ SaveLogToDatabase
    \/ TimerFires
    \/ ForceFlushLogs
    \/ WriteSettles
    \/ LogTick

SpecLog == InitLog /\ [][NextLog]_vars

(***************************************************************************)
(* Properties of checkRateLimit                                            *)
(***************************************************************************)
\* p's call has returned
Returned(p) == pc[p] = "ret"

\* no store command has failed and no two calls for i have been in flight together
HealthySequential(i) == faults = 0 /\ ~interleaved[i]

\* the admissions made before p's call began that a window ending at t still holds
AdmittedBefore(p, t) ==
    {k \in 1..seen[p] : admits[ident[p]][k] > t - WindowMs}

\* C1: from an empty window, with a healthy store and calls that do not
\* interleave, each of the first maxRequests calls made inside one windowMs
\* is allowed and the i-th of them returns remaining = maxRequests - i.
C1_RemainingDropsByOne ==
    \A p \in Procs :
        (/\ Returned(p)
         /\ HealthySequential(ident[p])
         /\ idx[p] <= maxRequests
         /\ now - firstAt[ident[p]] < WindowMs)
        => (res[p].allowed /\ res[p].remaining = maxRequests - idx[p])

\* C2: with a healthy store and calls that do not interleave, a call made
\* while maxRequests admitted calls lie inside the current window returns
\* allowed = false, remaining = 0 and no memberId, and adds no member.
C2_FullWindowDenies ==
    \A p \in Procs :
        (/\ Returned(p)
         /\ HealthySequential(ident[p])
         /\ Cardinality(AdmittedBefore(p, now)) >= maxRequests)
        => (/\ ~res[p].allowed
            /\ res[p].remaining = 0
            /\ res[p].memberId = None
            /\ ~added[p])

\* C3 as stated: after a denial, a call begun windowMs or more after the
\* oldest admission that the denial counted, with no admission in between,
\* is allowed.
C3_AllowedAfterWindow ==
    \A p \in Procs : (Returned(p) /\ due[p]) => res[p].allowed

\* C3 as amended: the same, for calls of one identifier that never interleave.
C3_AllowedAfterWindowSequential ==
    \A p \in Procs :
        (Returned(p) /\ due[p] /\ ~interleaved[ident[p]]) => res[p].allowed

\* a denied call that began windowMs after the denial's oldest admission has been let in
C3_Witness ==
    \E p \in Procs :
        /\ Returned(p) /\ due[p] /\ ~interleaved[ident[p]] /\ faults = 0
        /\ res[p].allowed /\ res[p].memberId # None
        /\ maxRequests = 2

\* C4: a denial's resetAt is the score of the oldest member the set holds
\* at the lookup plus windowMs, and now + windowMs when the set holds none.
C4_ResetAtFromOldest ==
    [][\A p \in Procs :
          (pc[p] = "zrange" /\ pc'[p] = "ret" /\ ~res'[p].allowed)
          => res'[p].resetAt =
                IF zset[ident[p]] = {}
                THEN tnow[p] + WindowMs
                ELSE MinOf({e.score : e \in zset[ident[p]]}) + WindowMs]_vars

\* a denial whose resetAt comes from an admission older than the denied call
C4_Witness ==
    \E p \in Procs :
        /\ Returned(p) /\ ~res[p].allowed
        /\ zset[ident[p]] # {}
        /\ res[p].resetAt = MinOf({e.score : e \in zset[ident[p]]}) + WindowMs
        /\ res[p].resetAt < tnow[p] + WindowMs

\* C5: a call one of whose store commands failed has returned, without an
\* error, allowed = true, remaining = maxRequests, resetAt = now + windowMs
\* and no memberId.
C5_FailOpen ==
    \A p \in Procs :
        failed[p] =>
            /\ Returned(p)
            /\ res[p] = [allowed |-> TRUE, remaining |-> maxRequests,
                         resetAt |-> tnow[p] + WindowMs, memberId |-> None]

\* a store command failed in a call made while the window was full
C5_Witness ==
    \E p \in Procs :
        /\ failed[p] /\ Returned(p) /\ res[p].allowed
        /\ maxRequests > 0
        /\ ZCard(zset[ident[p]]) >= maxRequests


(***************************************************************************)
(* Properties of the middleware                                            *)
(***************************************************************************)
\* the engine has answered p's request with allowed = false
DeniedByEngine(p) ==
    req[p] # 0 /\ pc[p] \in {"ret", "done"} /\ res[p] # NoResult /\ ~res[p].allowed

\* C6: a request the engine denied never has next() called for it; it ends
\* with the 429 response or with the handler's response, and with
\* standardHeaders on its X-RateLimit-Remaining is "0".
C6_DeniedNeverDownstream ==
    \A p \in Procs :
        DeniedByEngine(p) =>
            /\ nextCalls[p] = 0
            /\ pc[p] = "done" =>
                  /\ \/ resp[p] = TooManyRequests(resp[p].retryAfter)
                     \/ resp[p] = HandlerResponse
                  /\ cfg.standardHeaders => hd[p].remaining = <<"0">>

\* p's request was admitted with a memberId, went downstream once and the
\* middleware has returned the downstream response
AdmittedAndServed(p) ==
    /\ req[p] # 0 /\ pc[p] = "done"
    /\ res[p].allowed /\ res[p].memberId # None
    /\ nextCalls[p] = 1 /\ resp[p].by = "downstream"

\* the window set of p's identifier holds the member of p's request
MemberCounted(p) == \E e \in zset[ident[p]] : e.member = res[p].memberId

\* another request has put a member equal to that of p's request into the set
SameMemberAdded(p) ==
    \E q \in Procs \ {p} : added[q] /\ ident[q] = ident[p] /\ res[p].memberId = member[q]

\* C7: with a healthy store, once the middleware has finished an admitted
\* request whose status matches the skip condition, the member the request
\* added is not in the window set (an equal member there is one that another
\* request added); when the status does not match, the member is still in
\* the set for as long as the request lies inside the window.
C7_RollbackProperty ==
    \A p \in Procs :
        (AdmittedAndServed(p) /\ faults = 0) =>
            IF SkipMatches(resp[p].status)
            THEN MemberCounted(p) => SameMemberAdded(p)
            ELSE tnow[p] > now - WindowMs => MemberCounted(p)

\* p's request comes from an address of the configured whitelist
Whitelisted(k) == k # 0 /\ cfg.hasWhitelist /\ Includes(cfg.whitelist, GetClientIp(Requests[k]))

\* C8: a request from a whitelisted address has next() called exactly once,
\* never calls the engine, writes no Rollback Record, sets no limiter header,
\* is never answered by the limiter, and no step of it changes the store.
C8_WhitelistBypass ==
    /\ [](\A p \in Procs :
            Whitelisted(req[p]) =>
                /\ pc[p] \in {"down", "done"}
                /\ nextCalls[p] = 1
                /\ res[p] = NoResult /\ ident[p] = None
                /\ hd[p] = NoHeaders
                /\ kv[rid[p]] = <<>>
                /\ resp[p].by # "limiter" /\ resp[p].status # 429
                /\ pc[p] = "done" => resp[p] \in DownstreamResponses)
    /\ [][\A p \in Procs :
            (Whitelisted(req'[p]) /\ (rid'[p] # rid[p] \/ pc'[p] # pc[p]))
            => UNCHANGED <<zset, zexp, kv, kvexp, faults, calls>>]_vars

\* a whitelisted request has been served while the window of the route is full
C8_Witness ==
    \E p \in Procs :
        /\ Whitelisted(req[p]) /\ pc[p] = "done" /\ resp[p].status = 200
        /\ ZCard(zset["A"]) >= maxRequests

(***************************************************************************)
(* Properties of the cache                                                 *)
(***************************************************************************)
\* p's call is the second of two calls for one key made one after the other,
\* with a healthy store, no step of an invalidation since the first
\* returned, and within ttlSeconds of the first
SecondOfTwo(p) ==
    /\ pc[p] = "cret"
    /\ first[p].valid /\ ~olap[p]
    /\ faults = 0
    /\ now - first[p].at < 1000 * TtlSeconds

\* C9: of two such calls the fetcher is invoked at most once in total, and
\* the second call returns the value the first returned.
C9_CacheIdempotence ==
    \A p \in Procs :
        SecondOfTwo(p) =>
            /\ first[p].fetches + nfetch[p] <= 1
            /\ cres[p] = first[p].value

\* C10 as stated: the first cache call for K that begins after an
\* invalidateCache matching K has completed, no cache call for K being in
\* flight at that moment nor while that first call runs, invokes the fetcher
\* and returns what it fetched.
C10_FetchAfterInvalidate ==
    \A p \in Procs :
        (pc[p] = "cret" /\ afterO[p] /\ ~olap[p]) => (nfetch[p] >= 1 /\ cres[p] = got[p])

\* C10 as amended: the same, when no cache call for K was in flight at any
\* time between the beginning and the completion of the invalidation either.
C10_FetchAfterQuietInvalidate ==
    \A p \in Procs :
        (pc[p] = "cret" /\ afterA[p] /\ ~olap[p]) => (nfetch[p] >= 1 /\ cres[p] = got[p])

\* after an invalidation a call has returned a fetched value that differs
\* from the one the call before it returned
C10_Witness ==
    \E p \in Procs :
        /\ pc[p] = "cret" /\ afterA[p] /\ ~olap[p] /\ faults = 0
        /\ first[p].at # NoTime
        /\ first[p].value.type = "number"
        /\ nfetch[p] = 1 /\ cres[p] = got[p]
        /\ cres[p] # first[p].value

\* p's cache call has returned after a store failure: the catch block has
\* invoked the fetcher (once more than the try block did)
FellBack(p) == pc[p] = "cret" /\ nfetch[p] > (IF fresh[p] = JsUndefined THEN 0 ELSE 1)

\* a step of p's call in which its store read or write fails, or in which the
\* catch block runs
FailingStep(p) ==
    \/ pc[p] \in {"cget", "cset"} /\ pc'[p] = "crefetch"
    \/ pc[p] = "crefetch" /\ pc'[p] = "cret"

\* C11: a cache call whose store read or write fails returns (no error is
\* raised) the value the fetcher produced, and neither the failing step nor
\* the catch block writes an entry under the call's key.
C11_CacheFailOpen ==
    /\ [](\A p \in Procs : FellBack(p) => cres[p] = got[p])
    /\ [][\A p \in Procs :
            FailingStep(p) => /\ cstore'[ckey[p]] = cstore[ckey[p]]
                              /\ cexp'[ckey[p]] = cexp[ckey[p]]]_vars

(***************************************************************************)
(* Properties of the failure handling                                      *)
(***************************************************************************)
\* the key generator threw for p's request, or a store command of its engine
\* call failed
CheckFailed(p) ==
    /\ req[p] # 0
    /\ \/ KeyGeneratorThrows(Requests[req[p]]) /\ ~Bypass(GetClientIp(Requests[req[p]]))
       \/ failed[p]

\* the step of p's request in which the write of its Rollback Record fails
RecordWriteFails(p) ==
    pc[p] = "ret" /\ req[p] # 0 /\ pc'[p] # pc[p] /\ faults' = faults + 1

\* C12: a request whose check phase failed (key generation, the engine call,
\* the write of the Rollback Record) is answered by the downstream stage, which
\* has been invoked, and never with a response of the middleware's own.
C12_CheckFailureSwallowed ==
    /\ [](\A p \in Procs :
            (CheckFailed(p) /\ pc[p] = "done") =>
                (nextCalls[p] >= 1 /\ resp[p] \in DownstreamResponses))
    /\ [][\A p \in Procs :
            RecordWriteFails(p) =>
                /\ pc'[p] = "done"
                /\ nextCalls'[p] = nextCalls[p] + 1
                /\ resp'[p] \in DownstreamResponses]_vars

\* the engine call of a request failed while the window of the route was
\* full, and the request has been served by the downstream stage
C12_Witness ==
    \E p \in Procs :
        /\ req[p] # 0 /\ failed[p] /\ pc[p] = "done"
        /\ resp[p].status = 200 /\ nextCalls[p] = 1
        /\ ZCard(zset["A"]) >= maxRequests

\* p's invalidateCache call has ended by throwing the store's error
InvalidateThrew(p) == pc[p] = "iret" /\ ires[p] = NoTime

\* C13: no call of cache or invalidateCache ends with a store failure thrown
\* to its caller: a cache call that has ended has returned a value, and an
\* invalidateCache call that has ended has returned a count.
C13_NoStoreErrorSurfaces ==
    \A p \in Procs :
        /\ pc[p] = "cret" => cres[p] # JsUndefined
        /\ ~InvalidateThrew(p)

\* the step in which the invalidation of p's mutation completes successfully
MutationCompletes(p) ==
    pc[p] \in InInvalidate /\ pc'[p] = "iret" /\ ires'[p] # NoTime

\* a cache call that reads text under its key invokes its fetcher
Misses(text) == Len(text) = 0 \/ (Parsable(text) /\ JsonParse(text) = JsNull)

\* C14: when a mutation of user U completes, in a run without any overlapping
\* call, no cache entry scoped to U (listings and statistics) remains that a
\* query would be served from: the next getUserFiles or getStats query of U
\* is a miss that invokes its fetcher.
C14_MutationEvictsUserEntries ==
    [][\A p \in Procs :
          (MutationCompletes(p) /\ overlaps' = 0) =>
              \A k \in ScopedToUser(ipat[p]) : Misses(cstore'[k])]_vars

(***************************************************************************)
(* Properties of the window set under interleaving                         *)
(***************************************************************************)
\* the members of i's set that are inside the window now
InWindowNow(i) == {e \in zset[i] : e.score > now - WindowMs}

\* C15: a call is admitted on the count it read itself, whatever another call
\* has inserted since: a call that has returned without a store failure is
\* allowed exactly when its own count was below maxRequests.  (Two calls that
\* both read maxRequests - 1 are therefore both admitted.)
C15_AdmittedOnOwnCount ==
    \A p \in Procs :
        (Returned(p) /\ ident[p] # None /\ ~failed[p]) =>
            (res[p].allowed <=> count[p] < maxRequests)

\* two calls for one identifier have both read count = maxRequests - 1 and
\* both been admitted, and the set holds more than maxRequests in-window members
C15_Witness ==
    \E p, q \in Procs :
        /\ p # q /\ Returned(p) /\ Returned(q)
        /\ ident[p] # None /\ ident[q] = ident[p] /\ faults = 0
        /\ count[p] = maxRequests - 1 /\ count[q] = maxRequests - 1
        /\ res[p].allowed /\ res[q].allowed
        /\ Cardinality(InWindowNow(ident[p])) > maxRequests

\* C16: with at most N calls for an identifier in flight at the same time
\* (N = 1 while its calls have never interleaved, N = 2 = the processes of
\* the model otherwise) the in-window members of the identifier's set never
\* exceed maxRequests + N - 1.
C16_OverAdmissionBounded ==
    \A i \in Idents :
        Cardinality(InWindowNow(i)) <= maxRequests + (IF interleaved[i] THEN 2 ELSE 1) - 1

\* the bound is attained with N = 2, and a later call has been denied on a
\* count above maxRequests
C16_Witness ==
    \E p \in Procs :
        /\ Returned(p) /\ ident[p] # None /\ ~failed[p] /\ ~res[p].allowed
        /\ interleaved[ident[p]] /\ maxRequests >= 1
        /\ count[p] = maxRequests + 1
        /\ Cardinality(InWindowNow(ident[p])) = maxRequests + 1

\* C17: the purge step of a call removes every member whose timestamp is
\* now - windowMs or older and keeps every member whose timestamp is greater;
\* the count the call then reads, no other call being interleaved, is the
\* number of members with a timestamp greater than now - windowMs.
C17_HalfOpenWindow ==
    [][\A p \in Procs :
          /\ (pc[p] = "purge" /\ pc'[p] = "card") =>
                \A e \in zset[ident[p]] :
                    /\ e.score <= tnow[p] - WindowMs => e \notin zset'[ident[p]]
                    /\ e.score > tnow[p] - WindowMs => e \in zset'[ident[p]]
          /\ (pc[p] = "card" /\ pc'[p] \in {"zadd", "zrange"} /\ ~interleaved[ident[p]]) =>
                count'[p] = Cardinality({e \in zset[ident[p]] : e.score > tnow[p] - WindowMs})
    ]_vars

\* a purge has removed a member admitted exactly windowMs before the call
\* and kept a younger one
C17_Witness ==
    \E p \in Procs :
        /\ pc[p] = "card" /\ ident[p] # None
        /\ \E k \in 1..Len(admits[ident[p]]) : admits[ident[p]][k] = tnow[p] - WindowMs
        /\ zset[ident[p]] # {}
        /\ \A e \in zset[ident[p]] : e.score > tnow[p] - WindowMs

\* p's call has returned the fail-open result: allowed without a memberId
FailOpenReturned(p) ==
    Returned(p) /\ ident[p] # None /\ res[p].allowed /\ res[p].memberId = None

\* C18: a call that has returned the fail-open result has added no member to
\* the identifier's window set.
C18_FailOpenAddsNothing ==
    \A p \in Procs : FailOpenReturned(p) => ~added[p]

(***************************************************************************)
(* Properties of the rollback                                              *)
(***************************************************************************)
\* the step in which the ZREM of p's rollback runs
RollbackRuns(p) == pc[p] = "zrem" /\ pc'[p] # "zrem"

\* e is the member that q's request added to the window set
MemberOf(q, e) == req[q] # 0 /\ added[q] /\ member[q] # None /\ e.member = member[q]

\* C19: the rollback of a request leaves the member of every other request
\* in the window set, with its timestamp.
C19_RollbackLeavesOthers ==
    [][\A p \in Procs :
          RollbackRuns(p) =>
              \A q \in Procs \ {p} :
                  \A e \in zset[KeyIdent(rb[p].key)] :
                      MemberOf(q, e) => e \in zset'[KeyIdent(rb[p].key)]]_vars

\* the Rollback Record of p's request is in the store
RecordWritten(p) == rid[p] # 0 /\ Len(kv[rid[p]]) > 0

\* the step in which the middleware returns the response of p's request,
\* its rollback decision made
DecisionReturns(p) ==
    /\ pc[p] \in {"down", "lookup", "zrem", "delete"}
    /\ pc'[p] = "done"
    /\ nextCalls'[p] = nextCalls[p]
    /\ resp'[p].by = "downstream"

\* C20: when the middleware returns the response of a request whose Rollback
\* Record it wrote, the record is no longer in the store.
C20_RecordGoneOnReturn ==
    [][\A p \in Procs :
          (RecordWritten(p) /\ DecisionReturns(p)) => Len(kv'[rid[p]]) = 0]_vars

\* the step in which a store operation of p's rollback fails
RollbackStepFails(p) ==
    /\ pc[p] \in {"lookup", "zrem", "delete"}
    /\ pc'[p] = "done"
    /\ faults' = faults + 1

\* C21: when a store operation of the rollback fails, the middleware returns
\* the response the downstream stage produced and invokes that stage no more.
C21_RollbackFailureKeepsResponse ==
    [][\A p \in Procs :
          RollbackStepFails(p) =>
              resp'[p] = resp[p] /\ nextCalls'[p] = nextCalls[p]]_vars

(***************************************************************************)
(* Properties of the count                                                 *)
(***************************************************************************)
\* p's request was admitted with a memberId inside the current window, the
\* middleware has returned, and the outcome did not match the skip condition
CountedRequest(p) ==
    /\ req[p] # 0
    /\ pc[p] = "done"
    /\ ident[p] # None
    /\ res[p].allowed
    /\ res[p].memberId # None
    /\ tnow[p] > now - WindowMs
    /\ resp[p].by = "downstream"
    /\ ~SkipMatches(resp[p].status)

\* C22: the in-window members of an identifier's set are at least as many as
\* the requests admitted inside the window and not skipped.
C22_NeverUnderCounts ==
    \A i \in Idents :
        Cardinality(InWindowNow(i)) >= Cardinality({p \in Procs : CountedRequest(p) /\ ident[p] = i})

(***************************************************************************)
(* Properties of the entries' expiry                                       *)
(***************************************************************************)
\* an entry is stored under k
Present(k) == Len(cstore[k]) > 0

\* a completed invalidateCache call whose pattern matches k has left under k
\* an entry that holds a value the fetcher returns no more
StaleAfterInvalidate(k) ==
    /\ Present(k)
    /\ ~Misses(cstore[k])
    /\ cstore[k] # JsonStringify(db)
    /\ \E p \in Procs : pc[p] = "iret" /\ ires[p] # NoTime /\ GlobMatches(ipat[p], k)

\* C23: an entry is in the store only before its expiry, the expiry is at
\* most ttlSeconds ahead, and only the write of a missing cache call sets the
\* expiry of an entry: a stale entry is gone ttlSeconds after it was written.
C23_StaleBoundedByTtl ==
    /\ [](\A k \in CacheKeys :
            Present(k) => cexp[k] # NoTime /\ now < cexp[k] /\ cexp[k] <= now + 1000 * TtlSeconds)
    /\ [][\A k \in CacheKeys :
            (cexp'[k] # cexp[k] /\ cexp'[k] # NoTime) =>
                /\ cexp'[k] = now + 1000 * TtlSeconds
                /\ \E p \in Procs : pc[p] = "cset" /\ ckey[p] = k /\ pc'[p] # "cset"]_vars

\* a stale entry is under a key after the invalidation matching it completed,
\* no store command having failed
C23_Witness ==
    faults = 0 /\ \E k \in CacheKeys : StaleAfterInvalidate(k)

(***************************************************************************)
(* Properties of cache on a damaged payload                                *)
(***************************************************************************)
\* the step in which p's call returns from the catch block, JSON.parse having
\* thrown on the payload that is still stored under the key
ReturnsOnCorrupt(p) ==
    /\ pc[p] = "crefetch"
    /\ nfetch[p] = 0
    /\ cstore[ckey[p]] = Corrupt
    /\ pc'[p] = "cret"

\* C24: a call that finds a payload it cannot deserialize invokes the fetcher
\* once, returns its value and leaves that value stored under the key with
\* the TTL.
C24_CorruptTreatedAsMiss ==
    [][\A p \in Procs :
          ReturnsOnCorrupt(p) =>
              /\ nfetch'[p] = 1
              /\ cres'[p] = got'[p]
              /\ cstore'[ckey[p]] = JsonStringify(cres'[p])
              /\ cexp'[ckey[p]] = now + 1000 * TtlSeconds]_vars

(***************************************************************************)
(* Properties of the window key's expiry                                   *)
(***************************************************************************)
\* a call for i stands between its ZADD and its EXPIRE
AwaitsExpire(i) == \E p \in Procs : pc[p] = "expire" /\ ident[p] = i

\* C25: a window key that holds a member has a pending expiry at most
\* ceil(windowMs / 1000) + 1 seconds ahead.
C25_WindowKeyExpires ==
    \A i \in Idents :
        (zset[i] # {} /\ ~AwaitsExpire(i)) =>
            /\ zexp[i] # NoTime
            /\ now < zexp[i]
            /\ zexp[i] <= now + 1000 * (CeilDiv(WindowMs, 1000) + 1)

\* C26: next() is called at most once for a request.
C26_DownstreamAtMostOnce ==
    \A p \in Procs : req[p] # 0 => nextCalls[p] <= 1

\* C27: a cache call that has returned has invoked the fetcher at most once.
C27_FetcherAtMostOnce ==
    \A p \in Procs : pc[p] = "cret" => nfetch[p] <= 1

(***************************************************************************)
(* Properties of the wait a denial announces                               *)
(***************************************************************************)
\* p's call began at the resetAt of a denial or later, and no other call for
\* the identifier has been admitted, or has added its member, between that
\* denial and p's return
WaitedOut(p) ==
    /\ Returned(p)
    /\ late[p]
    /\ Len(admits[ident[p]]) = seen[p] + (IF res[p].memberId # None THEN 1 ELSE 0)
    /\ ~\E q \in Procs \ {p} : pc[q] = "expire" /\ ident[q] = ident[p]

\* C28 as stated: a call that has waited out a denial's resetAt is allowed,
\* and a denied call has added no member.
C28_ResetAtSufficient ==
    \A p \in Procs :
        /\ WaitedOut(p) => res[p].allowed
        /\ (Returned(p) /\ ~res[p].allowed) => ~added[p]

\* C28 as amended: the same, for a limit of at least one request and calls
\* of one identifier that never interleave.
C28_ResetAtSufficientSequential ==
    \A p \in Procs :
        /\ (WaitedOut(p) /\ maxRequests >= 1 /\ ~interleaved[ident[p]]) => res[p].allowed
        /\ (Returned(p) /\ ~res[p].allowed) => ~added[p]

\* a call that waited out a denial's resetAt, after a further denial before
\* it, has been admitted
C28_Witness ==
    \E p \in Procs :
        /\ WaitedOut(p) /\ ~interleaved[ident[p]] /\ faults = 0
        /\ res[p].allowed /\ res[p].memberId # None
        /\ maxRequests >= 1
        /\ idx[p] >= maxRequests + 3

(***************************************************************************)
(* Properties of the 429 response                                          *)
(***************************************************************************)
\* the middleware has answered p's request with its own 429 response
Answered429(p) == pc[p] = "done" /\ resp[p].by = "limiter" /\ resp[p].status = 429

\* C29: on a 429 response the body's retryAfter is at least 1, and with
\* standardHeaders on, Retry-After and X-RateLimit-Reset carry the same integer.
C29_RetryAfterPositive ==
    \A p \in Procs :
        Answered429(p) =>
            /\ resp[p].retryAfter >= 1
            /\ cfg.standardHeaders =>
                  /\ hd[p].retryAfter = IntString(resp[p].retryAfter)
                  /\ hd[p].reset = IntString(resp[p].retryAfter)

(***************************************************************************)
(* Properties of the log queue                                             *)
(***************************************************************************)
\* C30: while logs are queued, flushTimer holds a timer that is set and has
\* not fired; no queued log is older than FLUSH_INTERVAL, and the queue
\* never holds BATCH_SIZE logs.
C30_FlushAlwaysScheduled ==
    /\ Len(logQueue) > 0 => (flushTimer # NoTime /\ flushTimer \in timers)
    /\ \A k \in 1..Len(logQueue) : now <= logQueue[k] + FLUSH_INTERVAL
    /\ \A handle \in timers : Len(logQueue) > 0 /\ handle <= logQueue[1] + FLUSH_INTERVAL
    /\ Len(logQueue) < BATCH_SIZE

\* logs are queued behind a second timer while a database write of an
\* earlier flush is in progress
C30_Witness ==
    /\ Len(logQueue) > 0
    /\ writing > 0
    /\ flushTimer \in timers
    /\ flushTimer > FLUSH_INTERVAL

====
